---- MODULE Spec2Model ----
(***************************************************************************)
(* Swappo-DevOps: the integration suite's readiness fixture and            *)
(* authorization test, the Easyship shipping-estimate cloud function and   *)
(* the gRPC smoke script, each as a state machine of its own.              *)
(***************************************************************************)
EXTENDS Integers, Sequences, FiniteSets, TLC

VARIABLES
    \* wait_for_services (integration_test.py)
    rPhase, rSvc, rI, rHealthy, rAttempts, rSlept, rFailed, rPolled, rTests,
    \* get_shipping_estimate (main.py)
    request, upstream, response, upstreamCalls, raised, sPc,
    \* test_grpc / __main__ (test_grpc_connection.py)
    gPc, gInvoked, gReturned, gResult, gItem, gProcessed, gSuccess, gExit,
    \* auth_token + test_catalog_requires_auth (integration_test.py)
    aPc, aRegister, aLogin, aToken, aUnauth, aSent, aAuthed, aOutcome

varsReady == <<rPhase, rSvc, rI, rHealthy, rAttempts, rSlept, rFailed, rPolled, rTests>>
varsShip == <<request, upstream, response, upstreamCalls, raised, sPc>>
varsGrpc == <<gPc, gInvoked, gReturned, gResult, gItem, gProcessed, gSuccess, gExit>>
varsAuth == <<aPc, aRegister, aLogin, aToken, aUnauth, aSent, aAuthed, aOutcome>>
vars == <<varsReady, varsShip, varsGrpc, varsAuth>>

None == "None"

(***************************************************************************)
(* Readiness fixture: wait_for_services                                    *)
(***************************************************************************)

\* the services dict, in insertion order
Services == <<"Auth", "Catalog", "Chat", "Matchmaking", "Notifications">>

ServiceNames == {Services[k] : k \in 1..Len(Services)}

\* range(30)
MaxAttempts == 30

\* if i == 29
LastAttempt == 29

\* the test cases pytest collects from the module, in file order
TestCases == <<"test_auth_health", "test_catalog_health", "test_chat_health",
               "test_matchmaking_health", "test_notifications_health",
               "test_user_registration_and_login", "test_catalog_requires_auth",
               "test_complete_swap_workflow", "test_all_services_respond">>

InitReady ==
    /\ rPhase = "polling"
    /\ rSvc = 1
    /\ rI = 0
    /\ rHealthy = {}
    /\ rAttempts = 0
    /\ rSlept = 0
    /\ rFailed = None
    /\ rPolled = <<Services[1]>>
    /\ rTests = 0

\* the inner for loop is left (break, or range(30) exhausted): the outer loop
\* takes the next service, or the fixture returns
NextService ==
    IF rSvc < Len(Services)
    THEN /\ rSvc' = rSvc + 1
         /\ rPolled' = Append(rPolled, Services[rSvc + 1])
         /\ rPhase' = "polling"
    ELSE /\ rSvc' = rSvc
         /\ rPolled' = rPolled
         /\ rPhase' = "ready"

\* the inner loop goes on to its next iteration when range(30) has one
MoreAttempts == rI + 1 < MaxAttempts

\* GET /health answers 200: break
PollHealthy ==
    /\ rPhase = "polling"
    /\ rAttempts' = rAttempts + 1
    /\ rHealthy' = rHealthy \cup {Services[rSvc]}
    /\ rI' = 0
    /\ rSlept' = 0
    /\ NextService
    /\ UNCHANGED <<rFailed, rTests>>
    /\ UNCHANGED <<varsShip, varsGrpc, varsAuth>>

\* GET /health answers another status: the try body ends, nothing sleeps and
\* nothing fails, the loop takes its next i
PollNon200 ==
    /\ rPhase = "polling"
    /\ rSlept' = 0
    /\ IF MoreAttempts
       THEN /\ rI' = rI + 1
            /\ rAttempts' = rAttempts + 1
            /\ UNCHANGED <<rSvc, rPolled, rPhase>>
       ELSE /\ rI' = 0
            /\ rAttempts' = rAttempts + 1
            /\ NextService
    /\ UNCHANGED <<rHealthy, rFailed, rTests>>
    /\ UNCHANGED <<varsShip, varsGrpc, varsAuth>>

\* GET /health raises RequestException: pytest.fail on the last i, else sleep(1)
PollError ==
    /\ rPhase = "polling"
    /\ rAttempts' = rAttempts + 1
    /\ IF rI = LastAttempt
       THEN /\ rPhase' = "aborted"
            /\ rFailed' = Services[rSvc]
            /\ rSlept' = 0
            /\ UNCHANGED <<rI, rSvc, rPolled>>
       ELSE /\ rSlept' = 1
            /\ IF MoreAttempts
               THEN /\ rI' = rI + 1
                    /\ UNCHANGED <<rSvc, rPolled, rPhase>>
               ELSE /\ rI' = 0
                    /\ NextService
            /\ UNCHANGED rFailed
    /\ UNCHANGED <<rHealthy, rTests>>
    /\ UNCHANGED <<varsShip, varsGrpc, varsAuth>>

\* the session fixture returned: pytest runs the collected test cases
RunTestCase ==
    /\ rPhase \in {"ready", "testing"}
    /\ rTests < Len(TestCases)
    /\ rTests' = rTests + 1
    /\ rPhase' = "testing"
    /\ UNCHANGED <<rSvc, rI, rHealthy, rAttempts, rSlept, rFailed, rPolled>>
    /\ UNCHANGED <<varsShip, varsGrpc, varsAuth>>

(***************************************************************************)
(* Shipping estimate function: get_shipping_estimate                       *)
(***************************************************************************)

\* JSON scalars as Python sees them
Num(n) == [t |-> "num", n |-> n, s |-> ""]

Str(s) == [t |-> "str", n |-> 0, s |-> s]

Null == [t |-> "null", n |-> 0, s |-> ""]

\* bool(v) of a scalar: `if to_city:`
Truthy(v) ==
    CASE v.t = "num" -> v.n # 0
      [] v.t = "str" -> v.s # ""
      [] OTHER -> FALSE

\* top-level JSON values: an object (dict), an array (list) or null
JObject(f) == [t |-> "object", obj |-> f, len |-> 0]

JArray(n) == [t |-> "array", obj |-> <<>>, len |-> n]

JNull == [t |-> "null", obj |-> <<>>, len |-> 0]

\* request.get_json(silent=True): None for a missing or unparseable body
GetJson(body) == IF body.kind = "json" THEN body.json ELSE JNull

\* `not request_json`: None, {} and [] are all falsy
IsFalsy(j) ==
    CASE j.t = "object" -> DOMAIN j.obj = {}
      [] j.t = "array" -> j.len = 0
      [] OTHER -> TRUE

\* dict.get(key, default)
DictGet(d, key, default) == IF key \in DOMAIN d THEN d[key] ELSE default

\* the strings float() accepts, with their values
NumericStrings == [s \in {"3"} |-> 3]

\* request_json.get('weight_kg', 1.0)
DefaultWeight == 1

\* float(v): the value, or the exception's message
PyFloat(v) ==
    CASE v.t = "num" -> [ok |-> TRUE, val |-> v.n, exc |-> ""]
      [] v.t = "str" /\ v.s \in DOMAIN NumericStrings ->
            [ok |-> TRUE, val |-> NumericStrings[v.s], exc |-> ""]
      [] v.t = "str" ->
            [ok |-> FALSE, val |-> 0, exc |-> "could not convert string to float"]
      [] OTHER ->
            [ok |-> FALSE, val |-> 0,
             exc |-> "float() argument must be a string or a real number, not 'NoneType'"]

\* the optional destination fields, each added only when truthy
OptionalDestination(to_city, to_postal_code, to_state) ==
    LET given == [destination_city |-> to_city,
                  destination_postal_code |-> to_postal_code,
                  destination_state |-> to_state]
        keys == {k \in DOMAIN given : Truthy(given[k])}
    IN [k \in keys |-> given[k]]

\* easyship_request
EasyshipRequest(from_country, to_country, to_city, to_postal_code, to_state, weight_kg) ==
    [origin_country_alpha2 |-> from_country,
     destination_country_alpha2 |-> to_country,
     taxes_duties_paid_by |-> "Sender",
     is_insured |-> FALSE,
     items |-> <<[actual_weight |-> weight_kg, height |-> 10, width |-> 10,
                  length |-> 10, declared_currency |-> "USD",
                  declared_customs_value |-> 50]>>,
     optional |-> OptionalDestination(to_city, to_postal_code, to_state)]

\* response headers without the CORS header
NoCorsHeaders == {<<"Content-Type", "application/json">>}

\* the response headers outside OPTIONS
CorsHeaders == {<<"Access-Control-Allow-Origin", "*">>}

\* the preflight headers
OptionsHeaders ==
    {<<"Access-Control-Allow-Origin", "*">>,
     <<"Access-Control-Allow-Methods", "POST, GET, OPTIONS">>,
     <<"Access-Control-Allow-Headers", "Content-Type">>,
     <<"Access-Control-Max-Age", "3600">>}

NoEstimate == [cost |-> Null, currency |-> Null, courier |-> Null]

NoError == [text |-> "", code |-> 0]

\* the empty body of ('', 204, headers)
EmptyBody ==
    [kind |-> "empty", keys |-> {}, success |-> FALSE, error |-> NoError,
     estimate |-> NoEstimate]

\* jsonify({'success': False, 'error': ...})
ErrorBody(text, code) ==
    [kind |-> "json", keys |-> {"success", "error"}, success |-> FALSE,
     error |-> [text |-> text, code |-> code], estimate |-> NoEstimate]

\* jsonify(result)
EstimateBody(cheapest) ==
    [kind |-> "json", keys |-> {"success", "estimate"}, success |-> TRUE,
     error |-> NoError,
     estimate |-> [cost |-> cheapest["total_charge"],
                   currency |-> cheapest["currency"],
                   courier |-> cheapest["courier_name"]]]

NoResponse == [status |-> 0, headers |-> {}, body |-> EmptyBody]

\* return ('', 204, headers)
OptionsResponse == [status |-> 204, headers |-> OptionsHeaders, body |-> EmptyBody]

\* a missing body reported as a server error
BadRequestAsServerError ==
    [status |-> 500, headers |-> CorsHeaders,
     body |-> ErrorBody("Request body must be JSON", 0)]

\* 'Request body must be JSON', 400
BadRequestResponse ==
    [status |-> 400, headers |-> CorsHeaders,
     body |-> ErrorBody("Request body must be JSON", 0)]

\* f'Easyship API error: {response.status_code}', 500
UpstreamErrorResponse(status_code) ==
    [status |-> 500, headers |-> CorsHeaders,
     body |-> ErrorBody("Easyship API error: ", status_code)]

\* an empty rates list reported like an upstream failure
NoRatesAsServerError ==
    [status |-> 500, headers |-> CorsHeaders,
     body |-> ErrorBody("No shipping rates available", 0)]

\* 'No shipping rates available', 404
NoRatesResponse ==
    [status |-> 404, headers |-> CorsHeaders,
     body |-> ErrorBody("No shipping rates available", 0)]

\* jsonify(result), 200
EstimateResponse(cheapest) ==
    [status |-> 200, headers |-> CorsHeaders, body |-> EstimateBody(cheapest)]

\* except Exception as e: str(e), 500
ExceptionResponse(msg) ==
    [status |-> 500, headers |-> CorsHeaders, body |-> ErrorBody(msg, 0)]

\* what a stretch of the handler ends with: a returned response or a raised
\* exception, and the upstream requests it has sent
Return(resp, calls) ==
    [kind |-> "return", response |-> resp, calls |-> calls, exc |-> ""]

Raise(msg, calls) ==
    [kind |-> "raise", response |-> NoResponse, calls |-> calls, exc |-> msg]

\* response.ok
ResponseOk(status_code) == status_code < 400

\* a scan that lets a later quote of equal charge replace the kept one
RECURSIVE MinScanLast(_, _, _)
MinScanLast(rates, k, best) ==
    IF k > Len(rates) THEN best
    ELSE IF rates[k]["total_charge"].n <= rates[best]["total_charge"].n
         THEN MinScanLast(rates, k + 1, k)
         ELSE MinScanLast(rates, k + 1, best)

\* min(rates, key=...): the scan keeps the first quote whose key is smallest
RECURSIVE MinScan(_, _, _)
MinScan(rates, k, best) ==
    IF k > Len(rates) THEN best
    ELSE IF rates[k]["total_charge"].n < rates[best]["total_charge"].n
         THEN MinScan(rates, k + 1, k)
         ELSE MinScan(rates, k + 1, best)

\* min(rates, key=lambda r: r['total_charge']): KeyError when a quote has no
\* total_charge
PyMin(rates) ==
    IF \E k \in 1..Len(rates) : "total_charge" \notin DOMAIN rates[k]
    THEN [ok |-> FALSE, index |-> 0, exc |-> "'total_charge'"]
    ELSE [ok |-> TRUE, index |-> MinScan(rates, 2, 1), exc |-> ""]

\* data.get('rates', [])
GetRates(data) == IF data.hasRates THEN data.rates ELSE [t |-> "list", list |-> <<>>]

\* `not rates`
NoRates(rates) == rates.t = "null" \/ rates.list = <<>>

\* lines 126-140: pick the cheapest quote and answer with it
CheapestEstimate(rates, calls) ==
    LET m == PyMin(rates) IN
    IF ~m.ok THEN Raise(m.exc, calls)
    ELSE LET cheapest == rates[m.index] IN
         IF "currency" \notin DOMAIN cheapest THEN Raise("'currency'", calls)
         ELSE IF "courier_name" \notin DOMAIN cheapest THEN Raise("'courier_name'", calls)
         ELSE Return(EstimateResponse(cheapest), calls)

\* lines 98-140: the upstream call's outcome up and what the handler makes of it
AfterCall(up, calls) ==
    IF up.kind # "response" THEN Raise(up.kind, calls)
    ELSE IF ~ResponseOk(up.status_code)
         THEN Return(UpstreamErrorResponse(up.status_code), calls)
    ELSE IF up.body.t = "notjson"
         THEN Raise("Expecting value: line 1 column 1 (char 0)", calls)
    ELSE IF up.body.t = "array"
         THEN Raise("'list' object has no attribute 'get'", calls)
    ELSE LET rates == GetRates(up.body) IN
         IF NoRates(rates) THEN Return(NoRatesResponse, calls)
         ELSE CheapestEstimate(rates.list, calls)

\* lines 57-140: the try body
TryBody(req, up) ==
    LET request_json == GetJson(req.body) IN
    IF IsFalsy(request_json) THEN Return(BadRequestResponse, <<>>)
    ELSE IF request_json.t # "object"
         THEN Raise("'list' object has no attribute 'get'", <<>>)
    ELSE LET d == request_json.obj
             from_country == DictGet(d, "from_country", Str("US"))
             to_country == DictGet(d, "to_country", Str("US"))
             to_city == DictGet(d, "to_city", Null)
             to_postal_code == DictGet(d, "to_postal_code", Null)
             to_state == DictGet(d, "to_state", Null)
             weight_kg == PyFloat(DictGet(d, "weight_kg", Num(DefaultWeight)))
         IN IF ~weight_kg.ok THEN Raise(weight_kg.exc, <<>>)
            ELSE AfterCall(up, <<EasyshipRequest(from_country, to_country, to_city,
                                    to_postal_code, to_state, weight_kg.val)>>)

\* a handler without the try/except: the exception leaves the handler
NoTryExcept(r) == r

\* try ... except Exception as e: every exception becomes a 500 response
TryExcept(r) ==
    IF r.kind = "raise"
    THEN [kind |-> "return", response |-> ExceptionResponse(r.exc),
          calls |-> r.calls, exc |-> r.exc]
    ELSE r

\* get_shipping_estimate(request), given the upstream call's outcome
Handler(req, up) ==
    IF req.method = "OPTIONS" THEN Return(OptionsResponse, <<>>)
    ELSE TryExcept(TryBody(req, up))

\* ---- the requests and upstream answers the handler is run on ----

\* the longest upstream rates list
MaxQuotes == 2

Missing == [t |-> "missing", n |-> 0, s |-> ""]

\* the dict holding the keys of c that are not Missing
Present(c) == [k \in {x \in DOMAIN c : c[x].t # "missing"} |-> c[k]]

RequestObjects ==
    {Present(c) : c \in [from_country : {Missing, Str("DE")},
                         to_country : {Missing, Str("FR")},
                         to_city : {Missing, Str(""), Str("Paris")},
                         to_postal_code : {Missing, Str("75001")},
                         to_state : {Missing, Str("IDF")},
                         weight_kg : {Missing, Num(2), Str("3"), Str("abc"), Null}]}

Bodies ==
    {[kind |-> "absent", json |-> JNull], [kind |-> "unparseable", json |-> JNull],
     [kind |-> "json", json |-> JNull], [kind |-> "json", json |-> JArray(0)],
     [kind |-> "json", json |-> JArray(1)]}
    \cup {[kind |-> "json", json |-> JObject(f)] : f \in RequestObjects}

Requests == [method : {"OPTIONS", "POST", "GET"}, body : Bodies]

NoRequest == [method |-> "", body |-> [kind |-> "absent", json |-> JNull]]

\* rate quotes: the complete ones, and one lacking each key
Quotes ==
    {Present(c) : c \in [total_charge : {Num(1), Num(2)}, currency : {Str("USD")},
                         courier_name : {Str("UPS"), Str("DHL")}]}
    \cup {Present([total_charge |-> Missing, currency |-> Str("USD"),
                   courier_name |-> Str("UPS")]),
          Present([total_charge |-> Num(1), currency |-> Missing,
                   courier_name |-> Str("UPS")]),
          Present([total_charge |-> Num(1), currency |-> Str("USD"),
                   courier_name |-> Missing])}

QuoteLists == UNION {[1..n -> Quotes] : n \in 0..MaxQuotes}

NoBody == [t |-> "notjson", hasRates |-> FALSE, rates |-> [t |-> "null", list |-> <<>>]]

UpstreamBodies ==
    {NoBody,
     [t |-> "array", hasRates |-> FALSE, rates |-> [t |-> "null", list |-> <<>>]],
     [t |-> "object", hasRates |-> FALSE, rates |-> [t |-> "null", list |-> <<>>]],
     [t |-> "object", hasRates |-> TRUE, rates |-> [t |-> "null", list |-> <<>>]]}
    \cup {[t |-> "object", hasRates |-> TRUE, rates |-> [t |-> "list", list |-> l]] :
            l \in QuoteLists}

\* requests.post(...): a transport failure, an error status, or a success
\* status with some body
UpstreamOutcomes ==
    {[kind |-> k, status_code |-> 0, body |-> NoBody] : k \in {"ConnectionError", "Timeout"}}
    \cup {[kind |-> "response", status_code |-> c, body |-> NoBody] : c \in {401, 503}}
    \cup {[kind |-> "response", status_code |-> 200, body |-> b] : b \in UpstreamBodies}

NoUpstream == [kind |-> "none", status_code |-> 0, body |-> NoBody]

InitShip ==
    /\ request = NoRequest
    /\ upstream = NoUpstream
    /\ response = NoResponse
    /\ upstreamCalls = <<>>
    /\ raised = ""
    /\ sPc = "idle"

\* the platform hands one request to get_shipping_estimate, which answers it
GetShippingEstimate ==
    /\ sPc = "idle"
    /\ \E req \in Requests, up \in UpstreamOutcomes :
         LET r == Handler(req, up) IN
         /\ request' = req
         /\ upstream' = IF r.calls = <<>> THEN NoUpstream ELSE up
         /\ response' = r.response
         /\ upstreamCalls' = r.calls
         /\ raised' = r.exc
         /\ sPc' = IF r.kind = "return" THEN "done" ELSE "propagated"
    /\ UNCHANGED <<varsReady, varsGrpc, varsAuth>>

(***************************************************************************)
(* gRPC smoke script: test_grpc and __main__                               *)
(***************************************************************************)

\* the calls of test_grpc, in program order
Operations == <<"get_catalog_client", "validate_items", "get_item", "get_items">>

\* the three RPCs
Rpcs == {"validate_items", "get_item", "get_items"}

\* the ids handed to validate_items and to get_items
ValidateIds == <<1, 2, 999>>

GetItemsIds == {1, 2, 3}

\* what the client may hand back: None, or a value of the expected type,
\* possibly lacking a key the script reads
GrpcNone == [t |-> "none", keys |-> {}, list |-> <<>>, found |-> {}, name |-> ""]

ValidationLists ==
    {[k \in 1..Len(ValidateIds) |->
        [item_id |-> ValidateIds[k], exists |-> e[k], is_active |-> e[k] /\ a,
         keys |-> {"item_id", "exists", "is_active"}]] : e \in [1..3 -> BOOLEAN], a \in BOOLEAN}
    \cup {<<>>,
          <<[item_id |-> 1, exists |-> TRUE, is_active |-> TRUE,
             keys |-> {"item_id", "is_active"}]>>}

ValidateResults ==
    {GrpcNone} \cup {[t |-> "list", keys |-> {}, list |-> l, found |-> {}, name |-> ""] :
                        l \in ValidationLists}

GetItemResults ==
    {GrpcNone,
     [t |-> "dict", keys |-> {}, list |-> <<>>, found |-> {}, name |-> ""],
     [t |-> "dict", keys |-> {"id"}, list |-> <<>>, found |-> {}, name |-> ""],
     [t |-> "dict", keys |-> {"id", "name"}, list |-> <<>>, found |-> {}, name |-> "asd"]}

GetItemsResults ==
    {GrpcNone} \cup {[t |-> "dict", keys |-> ks, list |-> <<>>, found |-> f, name |-> ""] :
                        ks \in {{"items", "not_found_ids"}, {"items"}, {"not_found_ids"}},
                        f \in SUBSET GetItemsIds}

\* lines 21-23: len(result), then the three keys of every validation
PrintValidations(result) ==
    /\ result.t = "list"
    /\ \A k \in 1..Len(result.list) :
         {"item_id", "exists", "is_active"} \subseteq result.list[k].keys

\* lines 28-31: a falsy item is reported as not found, a truthy one needs 'name'
PrintItem(item) ==
    \/ item.t = "none"
    \/ item.keys = {}
    \/ "name" \in item.keys

\* lines 36-37: result['items'], then result['not_found_ids']
PrintItems(result) ==
    /\ result.t = "dict"
    /\ {"items", "not_found_ids"} \subseteq result.keys

\* an exit status that ignores the result of test_grpc
ExitAlwaysZero(success) == 0

\* sys.exit(0 if success else 1)
ExitStatus(success) == IF success = "True" THEN 0 ELSE 1

InitGrpc ==
    /\ gPc = "get_catalog_client"
    /\ gInvoked = <<>>
    /\ gReturned = {}
    /\ gResult = GrpcNone
    /\ gItem = GrpcNone
    /\ gProcessed = {}
    /\ gSuccess = None
    /\ gExit = -1

\* except Exception as e: print, traceback, return False
Except ==
    /\ gSuccess' = "False"
    /\ gPc' = "return"

\* client = get_catalog_client()
GetCatalogClient ==
    /\ gPc = "get_catalog_client"
    /\ gInvoked' = Append(gInvoked, "get_catalog_client")
    /\ \/ /\ gReturned' = gReturned \cup {"get_catalog_client"}
          /\ gProcessed' = gProcessed \cup {"get_catalog_client"}
          /\ gPc' = "validate_items"
          /\ UNCHANGED gSuccess
       \/ /\ Except
          /\ UNCHANGED <<gReturned, gProcessed>>
    /\ UNCHANGED <<gResult, gItem, gExit>>
    /\ UNCHANGED <<varsReady, varsShip, varsAuth>>

\* result = client.validate_items([1, 2, 999]) and the printing of it
ValidateItems ==
    /\ gPc = "validate_items"
    /\ gInvoked' = Append(gInvoked, "validate_items")
    /\ \/ \E r \in ValidateResults :
            /\ gResult' = r
            /\ gReturned' = gReturned \cup {"validate_items"}
            /\ IF PrintValidations(r)
               THEN /\ gProcessed' = gProcessed \cup {"validate_items"}
                    /\ gPc' = "get_item"
                    /\ UNCHANGED gSuccess
               ELSE /\ Except
                    /\ UNCHANGED gProcessed
       \/ /\ Except
          /\ UNCHANGED <<gResult, gReturned, gProcessed>>
    /\ UNCHANGED <<gItem, gExit>>
    /\ UNCHANGED <<varsReady, varsShip, varsAuth>>

\* item = client.get_item(1) and the printing of it
GetItem ==
    /\ gPc = "get_item"
    /\ gInvoked' = Append(gInvoked, "get_item")
    /\ \/ \E r \in GetItemResults :
            /\ gItem' = r
            /\ gReturned' = gReturned \cup {"get_item"}
            /\ IF PrintItem(r)
               THEN /\ gProcessed' = gProcessed \cup {"get_item"}
                    /\ gPc' = "get_items"
                    /\ UNCHANGED gSuccess
               ELSE /\ Except
                    /\ UNCHANGED gProcessed
       \/ /\ Except
          /\ UNCHANGED <<gItem, gReturned, gProcessed>>
    /\ UNCHANGED <<gResult, gExit>>
    /\ UNCHANGED <<varsReady, varsShip, varsAuth>>

\* result = client.get_items([1, 2, 3]), the printing of it, return True
GetItems ==
    /\ gPc = "get_items"
    /\ gInvoked' = Append(gInvoked, "get_items")
    /\ \/ \E r \in GetItemsResults :
            /\ gResult' = r
            /\ gReturned' = gReturned \cup {"get_items"}
            /\ IF PrintItems(r)
               THEN /\ gProcessed' = gProcessed \cup {"get_items"}
                    /\ gSuccess' = "True"
                    /\ gPc' = "return"
               ELSE /\ Except
                    /\ UNCHANGED gProcessed
       \/ /\ Except
          /\ UNCHANGED <<gResult, gReturned, gProcessed>>
    /\ UNCHANGED <<gItem, gExit>>
    /\ UNCHANGED <<varsReady, varsShip, varsAuth>>

\* success = test_grpc(); sys.exit(0 if success else 1)
SysExit ==
    /\ gPc = "return"
    /\ gExit' = ExitStatus(gSuccess)
    /\ gPc' = "exited"
    /\ UNCHANGED <<gInvoked, gReturned, gResult, gItem, gProcessed, gSuccess>>
    /\ UNCHANGED <<varsReady, varsShip, varsAuth>>

(***************************************************************************)
(* Authorization test: the auth_token fixture and                          *)
(* test_catalog_requires_auth                                              *)
(***************************************************************************)

\* str(v) inside an f-string
PyStr(v) == IF v.t = "null" THEN "None" ELSE v.s

\* a or b
PyOr(a, b) == IF Truthy(a) THEN a ELSE b

\* data.get("access_token") or data.get("token")
ExtractToken(data) ==
    PyOr(DictGet(data, "access_token", Null), DictGet(data, "token", Null))

\* {"Authorization": f"Bearer {auth_token}"}
BearerHeader(auth_token) == [scheme |-> "Bearer", credentials |-> PyStr(auth_token)]

NoHeader == [scheme |-> "", credentials |-> ""]

\* the bodies /login may answer with
LoginObjects ==
    {Present(c) : c \in [access_token : {Missing, Str("tokA"), Str(""), Null},
                         token : {Missing, Str("tokB"), Null}]}

LoginBodies ==
    {[t |-> "notjson", obj |-> <<>>], [t |-> "array", obj |-> <<>>]}
    \cup {[t |-> "object", obj |-> f] : f \in LoginObjects}

NoLogin == [status |-> 0, body |-> [t |-> "notjson", obj |-> <<>>]]

\* assert response.status_code in [401, 403]
Unauthorized == {401, 403}

\* assert response.status_code in [200, 404]
Accepted == {200, 404}

InitAuth ==
    /\ aPc = "register"
    /\ aRegister = 0
    /\ aLogin = NoLogin
    /\ aToken = Null
    /\ aUnauth = 0
    /\ aSent = NoHeader
    /\ aAuthed = 0
    /\ aOutcome = "running"

\* an exception in the fixture is a test error, one in the test body a failure
Finish(outcome) ==
    /\ aOutcome' = outcome
    /\ aPc' = "done"

\* requests.post(f"{AUTH_SERVICE}/register", ...): the answer is not looked at
Register ==
    /\ aPc = "register"
    /\ \/ \E status \in {201, 409, 500} :
            /\ aRegister' = status
            /\ aPc' = "login"
            /\ UNCHANGED aOutcome
       \/ /\ Finish("error")
          /\ UNCHANGED aRegister
    /\ UNCHANGED <<aLogin, aToken, aUnauth, aSent, aAuthed>>
    /\ UNCHANGED <<varsReady, varsShip, varsGrpc>>

\* requests.post(f"{AUTH_SERVICE}/login", ...); data = response.json();
\* return data.get("access_token") or data.get("token")
Login ==
    /\ aPc = "login"
    /\ \/ \E status \in {200, 401}, body \in LoginBodies :
            /\ aLogin' = [status |-> status, body |-> body]
            /\ IF body.t = "object"
               THEN /\ aToken' = ExtractToken(body.obj)
                    /\ aPc' = "unauthenticated"
                    /\ UNCHANGED aOutcome
               ELSE /\ Finish("error")
                    /\ UNCHANGED aToken
       \/ /\ Finish("error")
          /\ UNCHANGED <<aLogin, aToken>>
    /\ UNCHANGED <<aRegister, aUnauth, aSent, aAuthed>>
    /\ UNCHANGED <<varsReady, varsShip, varsGrpc>>

\* requests.get(f"{CATALOG_SERVICE}/items") without a token
UnauthenticatedGet ==
    /\ aPc = "unauthenticated"
    /\ \/ \E status \in {200, 401, 403} :
            /\ aUnauth' = status
            /\ IF status \in Unauthorized
               THEN /\ aPc' = "authenticated"
                    /\ UNCHANGED aOutcome
               ELSE Finish("failed")
       \/ /\ Finish("failed")
          /\ UNCHANGED aUnauth
    /\ UNCHANGED <<aRegister, aLogin, aToken, aSent, aAuthed>>
    /\ UNCHANGED <<varsReady, varsShip, varsGrpc>>

\* requests.get(f"{CATALOG_SERVICE}/items", headers=headers) with the token
AuthenticatedGet ==
    /\ aPc = "authenticated"
    /\ aSent' = BearerHeader(aToken)
    /\ \/ \E status \in {200, 401, 404} :
            /\ aAuthed' = status
            /\ Finish(IF status \in Accepted THEN "passed" ELSE "failed")
       \/ /\ Finish("failed")
          /\ UNCHANGED aAuthed
    /\ UNCHANGED <<aRegister, aLogin, aToken, aUnauth>>
    /\ UNCHANGED <<varsReady, varsShip, varsGrpc>>

(***************************************************************************)
(* Specifications: the four programs run independently of each other       *)
(***************************************************************************)

Init == InitReady /\ InitShip /\ InitGrpc /\ InitAuth

NextReady == PollHealthy \/ PollNon200 \/ PollError \/ RunTestCase

NextShip == GetShippingEstimate

NextGrpc == GetCatalogClient \/ ValidateItems \/ GetItem \/ GetItems \/ SysExit

NextAuth == Register \/ Login \/ UnauthenticatedGet \/ AuthenticatedGet

Next == NextReady \/ NextShip \/ NextGrpc \/ NextAuth

SpecReady == Init /\ [][NextReady]_vars

SpecShip == Init /\ [][NextShip]_vars

SpecGrpc == Init /\ [][NextGrpc]_vars

SpecAuth == Init /\ [][NextAuth]_vars

Spec == Init /\ [][Next]_vars

(***************************************************************************)
(* Properties of the readiness fixture (SpecReady)                         *)
(***************************************************************************)

\* polling of the k-th polled service is over
Finished(k) == k < Len(rPolled) \/ rPhase # "polling"

\* C1: when the readiness phase has ended, either every configured service
\* was seen answering 200, or the phase aborted the run and no test case has
\* executed; a service whose polling ended without a 200 means the abort
C1_ReadinessGate ==
    /\ rPhase # "polling" => (rHealthy = ServiceNames \/ rPhase = "aborted")
    /\ rPhase = "aborted" => rTests = 0
    /\ \A k \in 1..Len(rPolled) :
         (Finished(k) /\ rPolled[k] \notin rHealthy) => rPhase = "aborted"

\* C2: services are polled in configuration order, each at most 30 times and
\* not past its first 200; exactly one sleep separates two consecutive
\* attempts on a service; a service that exhausts its attempts aborts the
\* phase under its name and no later service is polled
C2_RetryDiscipline ==
    /\ rPolled = SubSeq(Services, 1, Len(rPolled))
    /\ rAttempts <= Len(rPolled) * MaxAttempts
    /\ rI < MaxAttempts
    /\ (rPhase = "polling" /\ rI > 0) => rSlept = 1
    /\ \A k \in 1..Len(rPolled) :
         (Finished(k) /\ rPolled[k] \notin rHealthy) =>
            /\ rPhase = "aborted"
            /\ rFailed = rPolled[k]
            /\ k = Len(rPolled)

(***************************************************************************)
(* Properties of get_shipping_estimate (SpecShip)                          *)
(***************************************************************************)

QuoteKeys == {"total_charge", "currency", "courier_name"}

\* the upstream call answered 200 with a JSON object
UpstreamObject ==
    /\ upstream.kind = "response"
    /\ upstream.status_code = 200
    /\ upstream.body.t = "object"

\* the quotes of the upstream answer, <<>> when it has no rates list
UpstreamQuotes ==
    IF UpstreamObject /\ upstream.body.hasRates /\ upstream.body.rates.t = "list"
    THEN upstream.body.rates.list
    ELSE <<>>

\* quote k is the first of the quotes with the least total_charge
FirstCheapest(quotes, k) ==
    /\ \A j \in 1..Len(quotes) :
         quotes[k]["total_charge"].n <= quotes[j]["total_charge"].n
    /\ \A j \in 1..(k - 1) :
         quotes[j]["total_charge"].n > quotes[k]["total_charge"].n

\* C3: a successful upstream answer with a non-empty list of complete quotes
\* gives 200, success=true and the cost, currency and courier of one quote
\* whose total_charge no quote undercuts, the first such quote of the list
C3_CheapestQuote ==
    (/\ sPc # "idle"
     /\ UpstreamQuotes # <<>>
     /\ \A k \in 1..Len(UpstreamQuotes) : DOMAIN UpstreamQuotes[k] = QuoteKeys)
    => /\ response.status = 200
       /\ response.body.success
       /\ "estimate" \in response.body.keys
       /\ \E k \in 1..Len(UpstreamQuotes) :
            /\ FirstCheapest(UpstreamQuotes, k)
            /\ response.body.estimate =
                 [cost |-> UpstreamQuotes[k]["total_charge"],
                  currency |-> UpstreamQuotes[k]["currency"],
                  courier |-> UpstreamQuotes[k]["courier_name"]]

\* two quotes tie on the least charge and the first one's courier is returned
C3_Witness ==
    /\ sPc = "done"
    /\ Len(UpstreamQuotes) = 2
    /\ \A k \in 1..2 : DOMAIN UpstreamQuotes[k] = QuoteKeys
    /\ UpstreamQuotes[1]["total_charge"] = UpstreamQuotes[2]["total_charge"]
    /\ UpstreamQuotes[1]["courier_name"] # UpstreamQuotes[2]["courier_name"]
    /\ response.status = 200
    /\ response.body.estimate.courier = UpstreamQuotes[1]["courier_name"]

\* C4: an upstream error status s gives 500 with success=false and an error
\* naming s; a successful upstream answer with no quotes (rates missing, null
\* or empty) gives 404 with success=false; neither carries an estimate
C4_UpstreamFailureOrNoRates ==
    (sPc # "idle" /\ upstream.kind = "response") =>
       /\ upstream.status_code >= 400 =>
            /\ response.status = 500
            /\ ~response.body.success
            /\ "error" \in response.body.keys
            /\ response.body.error.code = upstream.status_code
            /\ "estimate" \notin response.body.keys
       /\ (UpstreamObject /\ UpstreamQuotes = <<>>) =>
            /\ response.status = 404
            /\ ~response.body.success
            /\ "error" \in response.body.keys
            /\ "estimate" \notin response.body.keys

\* the upstream answered 200 without a rates key and the handler said 404
C4_Witness ==
    /\ sPc = "done"
    /\ UpstreamObject
    /\ ~upstream.body.hasRates
    /\ response.status = 404

\* C5: a POST whose body is absent or unparseable gets 400 with
\* success=false and a non-empty error, and no upstream request is made
C5_BadBodyIsClientError ==
    (/\ sPc # "idle"
     /\ request.method = "POST"
     /\ request.body.kind \in {"absent", "unparseable"})
    => /\ response.status = 400
       /\ ~response.body.success
       /\ "error" \in response.body.keys
       /\ response.body.error.text # ""
       /\ upstreamCalls = <<>>

\* a POST with an unparseable body was answered
C5_Witness ==
    /\ sPc = "done"
    /\ request.method = "POST"
    /\ request.body.kind = "unparseable"
    /\ response.status = 400

\* the value of field key that the claim expects the handler to extract
Extracted(d, key, default) == IF key \in DOMAIN d THEN d[key] ELSE default

\* the body is a JSON object whose weight_kg, when given, is a number
NumericWeightObject ==
    /\ request.body.kind = "json"
    /\ request.body.json.t = "object"
    /\ "weight_kg" \in DOMAIN request.body.json.obj =>
          request.body.json.obj["weight_kg"].t = "num"

ExceptionRaised ==
    \/ /\ request.body.kind = "json"
       /\ request.body.json.t = "array"
       /\ request.body.json.len > 0
    \/ /\ request.body.kind = "json"
       /\ request.body.json.t = "object"
       /\ "weight_kg" \in DOMAIN request.body.json.obj
       /\ \/ request.body.json.obj["weight_kg"].t = "null"
          \/ /\ request.body.json.obj["weight_kg"].t = "str"
             /\ request.body.json.obj["weight_kg"].s \notin {"3"}
    \/ upstream.kind \in {"ConnectionError", "Timeout"}
    \/ /\ upstream.kind = "response"
       /\ upstream.status_code = 200
       /\ upstream.body.t \in {"notjson", "array"}
    \/ \E k \in 1..Len(UpstreamQuotes) : "total_charge" \notin DOMAIN UpstreamQuotes[k]
    \/ /\ \A k \in 1..Len(UpstreamQuotes) : "total_charge" \in DOMAIN UpstreamQuotes[k]
       /\ \E k \in 1..Len(UpstreamQuotes) :
            /\ FirstCheapest(UpstreamQuotes, k)
            /\ DOMAIN UpstreamQuotes[k] # QuoteKeys

\* the response is the 500 made of the exception's message
ServerErrorOfException ==
    /\ sPc = "done"
    /\ response.status = 500
    /\ ~response.body.success
    /\ "error" \in response.body.keys
    /\ raised # ""
    /\ response.body.error.text = raised

\* C7 as stated: every failure while a non-OPTIONS request is processed, a
\* body parsing error included, ends in a 500 carrying the exception's
\* message, and no exception leaves the handler
C7_EveryFailureIs500 ==
    /\ sPc # "propagated"
    /\ (/\ sPc # "idle"
        /\ request.method # "OPTIONS"
        /\ (request.body.kind = "unparseable" \/ ExceptionRaised))
       => ServerErrorOfException

\* C7 amended: every exception raised while a non-OPTIONS request is processed
\* ends in a 500 carrying its message and none leaves the handler; a body
\* that does not parse raises nothing and is answered 400
C7_ExceptionsBecome500 ==
    /\ sPc # "propagated"
    /\ (sPc # "idle" /\ request.method # "OPTIONS" /\ ExceptionRaised)
       => ServerErrorOfException
    /\ (sPc # "idle" /\ request.method # "OPTIONS" /\ request.body.kind = "unparseable")
       => (response.status = 400 /\ raised = "")

\* the upstream call timed out and the handler answered 500 with the message
C7_Witness ==
    /\ sPc = "done"
    /\ upstream.kind = "Timeout"
    /\ response.status = 500
    /\ response.body.error.text = "Timeout"

\* C8: every response carries Access-Control-Allow-Origin: *; OPTIONS gives
\* 204 with an empty body and the CORS headers and calls nothing; any other
\* response has status 200, 400, 404 or 500, with success=true and an
\* estimate exactly at 200 and success=false and an error exactly otherwise
C8_HttpContract ==
    sPc # "idle" =>
       /\ <<"Access-Control-Allow-Origin", "*">> \in response.headers
       /\ request.method = "OPTIONS" =>
            /\ response.status = 204
            /\ response.body.kind = "empty"
            /\ \E h \in response.headers : h[1] = "Access-Control-Allow-Methods"
            /\ upstreamCalls = <<>>
            /\ raised = ""
       /\ request.method # "OPTIONS" =>
            /\ response.status \in {200, 400, 404, 500}
            /\ response.body.kind = "json"
            /\ (response.body.success /\ "estimate" \in response.body.keys)
                  <=> response.status = 200
            /\ (~response.body.success /\ "error" \in response.body.keys)
                  <=> response.status \in {400, 404, 500}
            /\ ("estimate" \in response.body.keys) # ("error" \in response.body.keys)

\* an OPTIONS request that carries a JSON body was answered
C8_Witness ==
    /\ sPc = "done"
    /\ request.method = "OPTIONS"
    /\ request.body.kind = "json"
    /\ response.status = 204

(***************************************************************************)
(* Properties of the gRPC smoke script (SpecGrpc)                          *)
(***************************************************************************)

\* the operations run in program order, each at most once, each only after
\* the one before it returned, and an operation that raised is the last one
GrpcOrder ==
    /\ gInvoked = SubSeq(Operations, 1, Len(gInvoked))
    /\ \A k \in 2..Len(gInvoked) : gInvoked[k - 1] \in gReturned
    /\ \A k \in 1..Len(gInvoked) : gInvoked[k] \notin gReturned => k = Len(gInvoked)
    /\ (gPc = "exited" /\ \E k \in 1..Len(gInvoked) : gInvoked[k] \notin gReturned)
          => gExit = 1
    /\ gPc = "exited" <=> gExit \in {0, 1}

\* C9 as stated: the order above, and the exit status is 0 exactly when all
\* three RPCs returned without an exception
C9_ExitZeroIffAllReturned ==
    /\ GrpcOrder
    /\ gPc = "exited" => (gExit = 0 <=> Rpcs \subseteq gReturned)

\* C9 amended: the order above, and the exit status is 0 exactly when all
\* three RPCs returned without an exception and the printing of each result
\* raised none; a get_item result of None still counts
C9_ExitZeroIffAllPrinted ==
    /\ GrpcOrder
    /\ gPc = "exited" => (gExit = 0 <=> Rpcs \subseteq gProcessed)
    /\ (gPc = "exited" /\ gItem.t = "none" /\ "get_items" \in gProcessed) => gExit = 0

\* the script exited 0 although get_item found nothing
C9_Witness ==
    /\ gPc = "exited"
    /\ gExit = 0
    /\ gItem.t = "none"
    /\ gInvoked = Operations

(***************************************************************************)
(* Properties of the authorization test (SpecAuth)                         *)
(***************************************************************************)

\* the tokens the login answer exposes under access_token or token
ExposedTokens ==
    IF aLogin.body.t = "object"
    THEN {aLogin.body.obj[k].s : k \in {x \in DOMAIN aLogin.body.obj :
                                          aLogin.body.obj[x].t = "str"
                                          /\ aLogin.body.obj[x].s # ""}}
    ELSE {}

\* C10: the token-bearing GET /items is sent only with a token that a
\* successful login returned, after a registration that did not fail; and
\* the test passes only if the request without a token got 401 or 403 and
\* the one with the token got 200 or 404
C10_BearerIsLoginToken ==
    /\ aSent # NoHeader =>
          /\ aRegister \in {200, 201, 409}
          /\ aLogin.status = 200
          /\ aSent.scheme = "Bearer"
          /\ aSent.credentials \in ExposedTokens
    /\ aOutcome = "passed" => (aUnauth \in Unauthorized /\ aAuthed \in Accepted)

====
